---- MODULE Spec2Model ----
(***************************************************************************)
(* swimpy/optimization.py: the optimisation run of _EvoalgosSwimProblem    *)
(* (__call__, run_tests, batch_evaluate, _get_clone, retrieve_objectives,  *)
(* observe_population, _save_run) and the population file interface        *)
(* optimization_populations (from_csv, to_run).                            *)
(*                                                                         *)
(* The evolutionary algorithm (evoalgos), the executor                     *)
(* (project.cluster.run_parallel) and the run browser are collaborators    *)
(* outside the repository: the model gives them the behaviour the          *)
(* specification states for them and leaves their choices open.            *)
(***************************************************************************)
EXTENDS Integers, Sequences, FiniteSets, TLC

(* ------------------------------ bounds -------------------------------- *)

\* most rows of a population file, and most columns besides the index
\* columns of a population file that the run did not write
MaxRows == 2

MaxCols == 2

\* largest population_size the runs are called with
MaxPop == 2

\* largest max_generations the runs are called with
MaxGenerations == 1

\* most defects (a missing run, an indicator with no or several records) the
\* executor produces in one call of __call__, the self-test's run aside
MaxFaults == 1

\* most batch evaluations of one call that take the longer elapsed time
MaxSlow == 1

(* ------------------------- values and arguments ----------------------- *)

\* a float: m * 10^e
Float(m, e) == [m |-> m, e |-> e]

\* nanval = 2e31
nanval == Float(2, 31)

\* self.algorithm, the class name of the subclass
algorithm == "SMSEMOA"

\* self.prefix = prefix or self.algorithm, for the default prefix=None
prefix == algorithm

\* a text is a sequence of characters; a chunk of characters without a colon
\* is written as one element: 'o1:i1' is <<"o1", ":", "i1">>

\* sorted(objectives.items()) for objectives = {'o1': 'i1', 'o2': 'i2'}
SortedItems == << << <<"o1">>, <<"i1">> >>, << <<"o2">>, <<"i2">> >> >>

\* self.objectives, self.indicators = zip(*sorted(objectives.items()))
objectives == [k \in 1..Len(SortedItems) |-> SortedItems[k][1]]

indicators == [k \in 1..Len(SortedItems) |-> SortedItems[k][2]]

\* self.parameters: sorted(parameters.items()) for parameters = {'a': (0, 1)}
parameters == << << <<"a">>, <<0, 1>> >> >>

\* the values of the test argument
TestArgs == {"True", "False", "None"}

\* the elapsed wall-clock seconds of a quick and of a slow batch evaluation
ElapsedSeconds == [quick |-> 1, slow |-> 2]

Quick == ElapsedSeconds.quick

Slow == ElapsedSeconds.slow

\* number of records an executed run can hold for one indicator
RecordCounts == 0..2

\* output_attribute_columns
output_attribute_columns == <<"generation", "id_number", "clone", "birthgeneration">>

(* ------------------------------ helpers ------------------------------- *)

Range(s) == {s[k] : k \in 1..Len(s)}

RECURSIVE SumSeq(_)
SumSeq(s) == IF s = <<>> THEN 0 ELSE s[1] + SumSeq(Tail(s))

\* the decimal digits as characters
DigitChar == <<"0", "1", "2", "3", "4", "5", "6", "7", "8", "9">>

\* str(n) for n >= 0: the sequence of its decimal digits
RECURSIVE Str(_)
Str(n) == IF n < 10 THEN <<DigitChar[n + 1]>>
          ELSE Append(Str(n \div 10), DigitChar[(n % 10) + 1])

\* '%0wi' % i : the digits d of i, left-padded with zeros to width w
RECURSIVE ZeroPad(_, _)
ZeroPad(d, w) == IF Len(d) >= w THEN d ELSE ZeroPad(<<"0">> \o d, w)

\* the subsequence of s at the positions in S, in order
RECURSIVE Pick(_, _, _)
Pick(s, S, k) ==
    IF k > Len(s) THEN <<>>
    ELSE (IF k \in S THEN <<s[k]>> ELSE <<>>) \o Pick(s, S, k + 1)

(* ----------------------- population file columns ---------------------- *)

\* '%r' of a range tuple: '(lo, up)'; of a number (a tuple of one): its digits
Repr(r) ==
    IF Len(r) = 1 THEN Str(r[1])
    ELSE <<"(">> \o Str(r[1]) \o <<",", " ">> \o Str(r[2]) \o <<")">>

\* the columns observe_population writes: lines 324-327
HeaderColumns(pars, objs, inds) ==
    [k \in 1..Len(output_attribute_columns) |-> <<output_attribute_columns[k]>>]
    \o [k \in 1..Len(objs) |-> <<"objective", ":">> \o objs[k] \o <<":">> \o inds[k]]
    \o [k \in 1..Len(pars) |-> <<"parameter", ":">> \o pars[k][1] \o <<":">>
                                  \o Repr(pars[k][2])]

\* position of the first colon of a text, 0 if it has none
FirstColon(t) ==
    IF \E k \in 1..Len(t) : t[k] = ":"
    THEN CHOOSE k \in 1..Len(t) : t[k] = ":" /\ \A j \in 1..(k - 1) : t[j] # ":"
    ELSE 0

\* c.split(':')
RECURSIVE Split(_)
Split(t) ==
    IF FirstColon(t) = 0 THEN <<t>>
    ELSE <<SubSeq(t, 1, FirstColon(t) - 1)>>
         \o Split(SubSeq(t, FirstColon(t) + 1, Len(t)))

IsDigit(c) == \E d \in 1..Len(DigitChar) : DigitChar[d] = c

DigitValue(c) == (CHOOSE d \in 1..Len(DigitChar) : DigitChar[d] = c) - 1

IsNumber(t) == Len(t) >= 1 /\ \A k \in 1..Len(t) : IsDigit(t[k])

RECURSIVE Number(_)
Number(t) ==
    IF Len(t) = 1 THEN DigitValue(t[1])
    ELSE 10 * Number(SubSeq(t, 1, Len(t) - 1)) + DigitValue(t[Len(t)])

\* position of the comma in '(lo, up)', 0 if the text has not that shape
TupleComma(t) ==
    IF /\ Len(t) >= 6
       /\ t[1] = "("
       /\ t[Len(t)] = ")"
       /\ \E k \in 3..(Len(t) - 3) :
            /\ t[k] = ","
            /\ t[k + 1] = " "
            /\ IsNumber(SubSeq(t, 2, k - 1))
            /\ IsNumber(SubSeq(t, k + 2, Len(t) - 1))
    THEN CHOOSE k \in 3..(Len(t) - 3) :
            /\ t[k] = ","
            /\ t[k + 1] = " "
            /\ IsNumber(SubSeq(t, 2, k - 1))
            /\ IsNumber(SubSeq(t, k + 2, Len(t) - 1))
    ELSE 0

\* eval(pr[2]): a tuple for '(lo, up)', a number for digits (written here as
\* a tuple of one), an exception for the other texts of the model
Eval(t) ==
    IF TupleComma(t) # 0
    THEN [ok |-> TRUE,
          val |-> <<Number(SubSeq(t, 2, TupleComma(t) - 1)),
                    Number(SubSeq(t, TupleComma(t) + 2, Len(t) - 1))>>]
    ELSE IF IsNumber(t) THEN [ok |-> TRUE, val |-> <<Number(t)>>]
    ELSE [ok |-> FALSE, val |-> <<>>]

(* ---------------------- optimization_populations ---------------------- *)

\* d[k] = v on a dict
DictSet(d, k, v) == [x \in DOMAIN d \cup {k} |-> IF x = k THEN v ELSE d[x]]

EmptyStore ==
    [parameters |-> <<>>, parameter_ranges |-> <<>>, objectives |-> <<>>,
     indicators |-> <<>>, columns |-> <<>>, error |-> FALSE]

\* one pass of the loop of from_csv over column c: lines 412-421
InterpretColumnStrict(st, c) ==
    LET pr == Split(c)
    IN  IF Len(pr) >= 3 /\ pr[1] = <<"parameter">> /\ Eval(pr[3]).ok
        THEN [st EXCEPT !.parameters = Append(@, pr[2]),
                        !.parameter_ranges = DictSet(@, pr[2], Eval(pr[3]).val),
                        !.columns = Append(@, pr[2])]
        ELSE IF Len(pr) >= 3 /\ pr[1] = <<"objective">>
        THEN [st EXCEPT !.objectives = Append(@, pr[2]),
                        !.indicators = DictSet(@, pr[2], pr[3]),
                        !.columns = Append(@, pr[2])]
        ELSE [st EXCEPT !.error = TRUE]

InterpretColumn(st, c) ==
    LET pr == Split(c)
    IN  IF Len(pr) >= 3
        THEN IF pr[1] = <<"parameter">>
             THEN IF Eval(pr[3]).ok
                  THEN [st EXCEPT !.parameters = Append(@, pr[2]),
                                  !.parameter_ranges = DictSet(@, pr[2], Eval(pr[3]).val),
                                  !.columns = Append(@, pr[2])]
                  ELSE [st EXCEPT !.parameters = Append(@, pr[2]),
                                  !.error = TRUE]
             ELSE IF pr[1] = <<"objective">>
             THEN [st EXCEPT !.objectives = Append(@, pr[2]),
                             !.indicators = DictSet(@, pr[2], pr[3]),
                             !.columns = Append(@, pr[2])]
             ELSE [st EXCEPT !.columns = Append(@, pr[2])]
        ELSE [st EXCEPT !.columns = Append(@, c)]

\* the loop of from_csv from column k on; an exception ends it
RECURSIVE InterpretColumns(_, _, _)
InterpretColumns(st, cols, k) ==
    IF k > Len(cols) \/ st.error THEN st
    ELSE InterpretColumns(InterpretColumn(st, cols[k]), cols, k + 1)

\* index_col = (0, 1)
IndexColumns == 2

\* pd.read_csv names a header cell that repeats an earlier name: the name,
\* a dot and the count of that name so far, again until the name is new
RECURSIVE Dedup(_, _)
Dedup(counts, col) ==
    LET cur_count == IF col \in DOMAIN counts THEN counts[col] ELSE 0
    IN  IF cur_count > 0
        THEN Dedup(DictSet(counts, col, cur_count + 1),
                   col \o <<".">> \o Str(cur_count))
        ELSE [counts |-> DictSet(counts, col, 1), col |-> col]

\* the names pd.read_csv gives the header cells from cell k on
RECURSIVE MangleFrom(_, _, _)
MangleFrom(counts, names, k) ==
    IF k > Len(names) THEN <<>>
    ELSE LET d == Dedup(counts, names[k])
         IN  <<d.col>> \o MangleFrom(d.counts, names, k + 1)

\* the column names of pd.read_csv(path): mangle_dupe_cols is on by default
mangle_dupe_cols(names) == MangleFrom(<<>>, names, 1)

\* the generation numbers of the rows are 0, 1, ... without a gap
Contiguous(rows) ==
    LET gens == {rows[k][1] : k \in 1..Len(rows)}
    IN  \A g \in gens : \A h \in 0..g : h \in gens

\* from_csv(path) on a file [cols: the header's cells, rows: the data lines]:
\* the metadata and the frame (index names, column names, rows)
from_csv_contiguous(file) ==
    LET names == mangle_dupe_cols(file.cols)
        st == InterpretColumns(EmptyStore,
                  SubSeq(names, IndexColumns + 1, Len(names)), 1)
    IN  [parameters |-> st.parameters, parameter_ranges |-> st.parameter_ranges,
         objectives |-> st.objectives, indicators |-> st.indicators,
         index |-> SubSeq(names, 1, IndexColumns),
         columns |-> st.columns, rows |-> file.rows,
         error |-> st.error \/ ~Contiguous(file.rows)]

from_csv(file) ==
    LET names == mangle_dupe_cols(file.cols)
        st == InterpretColumns(EmptyStore,
                  SubSeq(names, IndexColumns + 1, Len(names)), 1)
    IN  [parameters |-> st.parameters, parameter_ranges |-> st.parameter_ranges,
         objectives |-> st.objectives, indicators |-> st.indicators,
         index |-> SubSeq(names, 1, IndexColumns),
         columns |-> st.columns, rows |-> file.rows, error |-> st.error]

\* the column name to_run writes for column c: lines 434-438
RunColumn(pops, c) ==
    IF c \in Range(pops.parameters)
    THEN <<"parameter", ":">> \o c \o <<":">> \o Repr(pops.parameter_ranges[c])
    ELSE IF c \in Range(pops.objectives)
    THEN <<"objective", ":">> \o c \o <<":">> \o pops.indicators[c]
    ELSE c

\* the file to_run saves with the run: df.to_csv(tmpf) writes the index too
to_run(pops) ==
    [cols |-> pops.index \o [k \in 1..Len(pops.columns) |-> RunColumn(pops, pops.columns[k])],
     rows |-> pops.rows]

\* the rows of the last generation: self.ix[max(self.index.levels[0])]
last_generation(rows) ==
    LET gens == {rows[k][1] : k \in 1..Len(rows)}
        last == CHOOSE g \in gens : \A h \in gens : h <= g
    IN  Pick(rows, {k \in 1..Len(rows) : rows[k][1] = last}, 1)

(* ------------------------------- state -------------------------------- *)

VARIABLES
    test,             \* argument test: "True" | "False" | "None"
    keep_clones,      \* argument keep_clones
    population_size,  \* self.population_size
    max_generations,  \* self.max_generations
    pc,               \* position in __call__ / ea.run
    bpc,              \* position in batch_evaluate (0: not in it)
    ret,              \* where batch_evaluate returns to
    target,           \* the list batch_evaluate was given: "population" | "offspring"
    generation,       \* self.ea.generation
    population,       \* self.ea.population (before ea exists: start_population)
    offspring,        \* the offspring of the current step
    next_id,          \* id_number of the next individual created
    clones,           \* self.clones: clone name -> handle
    clone_calls,      \* project.clone calls so far, the names in call order
    clone_params,     \* handle -> parameter vector last applied to it
    evaltimes,        \* self.evaltimes
    timeouts,         \* the timeout passed to each run_parallel call
    runs,             \* the runs returned by run_parallel in this batch
    obvals,           \* objective_values of batch_evaluate
    store,            \* the run records in the browser
    budget,           \* budget and slow batches the environment may still produce
    saved,            \* the runs saved by _save_run
    test_counts,      \* records per indicator of the self-test's run (<<>>: not run)
    observerfile,     \* [buf: written, not flushed; disk: the file's lines]
    log,              \* what happened so far, in order
    given,            \* population file model: what is written, or a file from elsewhere
    csv,              \* population file model: the file, [cols, rows]
    frame,            \* population file model: what from_csv returned last
    frame0,           \* population file model: what the first from_csv returned
    fpc,              \* population file model: position
    result            \* what the operation applied last returned or raised

vars == <<test, keep_clones, population_size, max_generations, pc, bpc, ret,
          target, generation, population, offspring, next_id, clones,
          clone_calls, clone_params, evaltimes, timeouts, runs, obvals, store,
          budget, saved, test_counts, observerfile, log, given, csv, frame,
          frame0, fpc, result>>

\* the variables of the population file model
filevars == <<given, csv, frame, frame0, fpc, result>>

Event(e, a) == [e |-> e, a |-> a, used |-> <<>>]

\* an individual without a clonename attribute / without objective values
NoName == <<>>

\* an individual as evoalgos creates it: not yet evaluated
Individual(id, born) ==
    [id_number |-> id, genome |-> id, clonename |-> NoName,
     date_of_birth |-> born, objective_values |-> <<>>]

\* the value indicator k takes in a run with parameter vector g
Sim(g, k) == Float(10 * g + k, 0)

\* a header line and a data line of the population file
HeaderLine(cols) == [header |-> TRUE, cols |-> cols, cells |-> <<>>]

RowLine(cells) == [header |-> FALSE, cols |-> <<>>, cells |-> cells]

\* a population file left by an earlier run
StaleFile == <<HeaderLine(<<"generation">>), RowLine(<<7>>)>>

(* ------------------------------ __call__ ------------------------------ *)

\* open(self.output, 'w')
OpenAppend(f) == [buf |-> <<>>, disk |-> f.disk]

OpenWrite(f) == [buf |-> <<>>, disk |-> <<>>]

\* create_start_population: population_size individuals
create_start_population(n) == [k \in 1..n |-> Individual(k, -1)]

Init ==
    /\ test \in TestArgs
    /\ keep_clones \in BOOLEAN
    /\ population_size \in 1..MaxPop
    /\ max_generations \in 0..MaxGenerations
    /\ pc = "call"
    /\ bpc = 0
    /\ ret = "none"
    /\ target = "population"
    /\ generation = 0
    /\ population = <<>>
    /\ offspring = <<>>
    /\ next_id = 1
    /\ clones = <<>>
    /\ clone_calls = <<>>
    /\ clone_params = <<>>
    /\ evaltimes = <<>>
    /\ timeouts = <<>>
    /\ runs = {}
    /\ obvals = <<>>
    /\ store = {}
    /\ budget \in {[faults |-> MaxFaults, slow |-> 0], [faults |-> 0, slow |-> MaxSlow]}
    /\ saved = <<>>
    /\ test_counts = <<>>
    /\ observerfile \in {[buf |-> <<>>, disk |-> <<>>], [buf |-> <<>>, disk |-> StaleFile]}
    /\ log = <<>>
    /\ given = <<>>
    /\ csv = <<>>
    /\ frame = <<>>
    /\ frame0 = <<>>
    /\ fpc = "off"
    /\ result = <<>>

\* __call__ up to the tests: lines 112-137
Call ==
    /\ pc = "call"
    /\ observerfile' = OpenWrite(observerfile)
    /\ evaltimes' = <<>>
    /\ population' = create_start_population(population_size)
    /\ next_id' = population_size + 1
    /\ pc' = IF test # "False" THEN "tests" ELSE "algo"
    /\ UNCHANGED filevars
    /\ UNCHANGED <<test, keep_clones, population_size, max_generations, bpc, ret,
                   target, generation, offspring, clones, clone_calls,
                   clone_params, timeouts, runs, obvals, store, budget, saved,
                   test_counts, log>>

(* ------------------------- retrieve_objectives ------------------------ *)

\* a run in the browser: its tags name the clone, ri[k] are the values of
\* the resultindicator records named indicators[k]
Run(id, cn, g, counts) ==
    [id |-> id, tags |-> cn,
     ri |-> [k \in 1..Len(indicators) |-> [j \in 1..counts[k] |-> Sim(g, k)]]]

\* the values of one run: lines 240-248
ValsOfPresent(r) ==
    Pick([k \in 1..Len(indicators) |->
             IF Len(r.ri[k]) >= 1 THEN r.ri[k][1] ELSE nanval],
         {k \in 1..Len(indicators) : Len(r.ri[k]) = 1}, 1)

ValsDuplicateAccepted(r) ==
    [k \in 1..Len(indicators) |->
        IF Len(r.ri[k]) >= 1 THEN r.ri[k][1] ELSE nanval]

Vals(r) ==
    [k \in 1..Len(indicators) |->
        IF Len(r.ri[k]) = 1 THEN r.ri[k][1] ELSE nanval]

\* retrieve_objectives(runs): clone name -> objective values
retrieve_objectives(rs) ==
    [cn \in {r.tags : r \in rs} |-> Vals(CHOOSE r \in rs : r.tags = cn)]

(* ------------------------------ run_tests ----------------------------- *)

\* prefix + '__test'
TestCloneName == <<prefix, "_", "_test">>

\* number of resultindicator records of a run
RECURSIVE CountRecords(_, _)
CountRecords(r, k) ==
    IF k > Len(indicators) THEN 0 ELSE Len(r.ri[k]) + CountRecords(r, k + 1)

\* the three assertions of run_tests on the test clone's run
TestsPassAtMost(run) ==
    LET runqset == {run}
        obj_vals == retrieve_objectives(runqset)[TestCloneName]
    IN  /\ CountRecords(run, 1) <= Len(indicators)
        /\ Cardinality(runqset) = 1
        /\ Len(obj_vals) = Len(objectives)

TestsPass(run) ==
    LET runqset == {run}
        obj_vals == retrieve_objectives(runqset)[TestCloneName]
    IN  /\ CountRecords(run, 1) = Len(indicators)
        /\ Cardinality(runqset) = 1
        /\ Len(obj_vals) = Len(objectives)

\* where __call__ goes after run_tests returned: lines 141-143
AfterTestsGoesOn == "algo"

AfterTests == IF test = "True" THEN "done" ELSE "algo"

RunTests ==
    /\ pc = "tests"
    /\ \E counts \in [1..Len(indicators) -> RecordCounts] :
        LET run == Run([batch |-> 0, k |-> 0], TestCloneName, population[1].genome, counts)
            ok == TestsPass(run)
        IN  /\ test_counts' = counts
            /\ clone_calls' = Append(clone_calls, TestCloneName)
            /\ log' = log \o <<Event("clone", 0)>>
                          \o (IF ok THEN <<Event("test", 1), Event("remove", 0)>>
                                    ELSE <<Event("test", 0)>>)
            /\ pc' = IF ok THEN AfterTests ELSE "aborted"
    /\ UNCHANGED filevars
    /\ UNCHANGED <<test, keep_clones, population_size, max_generations, bpc, ret,
                   target, generation, population, offspring, next_id, clones,
                   clone_params, evaltimes, timeouts, runs, obvals, store, budget, saved,
                   observerfile>>

(* --------------------------- batch_evaluate --------------------------- *)

\* the statements of batch_evaluate in program order: lines 196-218
BatchStepsDeleteFirst == <<"prepare", "run", "delete", "retrieve", "assign", "time">>

BatchSteps == <<"prepare", "run", "retrieve", "delete", "assign", "time">>

AtStep(name) == pc = "batch" /\ bpc \in 1..Len(BatchSteps) /\ BatchSteps[bpc] = name

\* the individuals argument
individuals == IF target = "population" THEN population ELSE offspring

\* cn of _get_clone: line 221
CloneNameUnpadded(i) == <<prefix, "_">> \o Str(i)

CloneName(i) ==
    <<prefix, "_">> \o ZeroPad(Str(i), Len(Str(population_size - 1)))

\* _get_clone(i) on self = [clones, calls]; calls are the project.clone calls
get_clone_always(self, i) ==
    LET cn == CloneName(i)
        h == Len(self.calls) + 1
    IN  [clones |-> [x \in DOMAIN self.clones \cup {cn} |->
                        IF x = cn THEN h ELSE self.clones[x]],
         calls |-> Append(self.calls, cn), clone |-> h, clonename |-> cn]

get_clone(self, i) ==
    LET cn == CloneName(i)
        h == Len(self.calls) + 1
    IN  IF cn \in DOMAIN self.clones
        THEN [clones |-> self.clones, calls |-> self.calls,
              clone |-> self.clones[cn], clonename |-> cn]
        ELSE [clones |-> self.clones @@ (cn :> h),
              calls |-> Append(self.calls, cn), clone |-> h, clonename |-> cn]

\* set_parameters(clone, parameters): the clone's basin parameters
set_parameters_once(params, clone, genome) ==
    [h \in DOMAIN params \cup {clone} |->
        IF h \in DOMAIN params THEN params[h] ELSE genome]

set_parameters(params, clone, genome) ==
    [h \in DOMAIN params \cup {clone} |-> IF h = clone THEN genome ELSE params[h]]

\* the loop of lines 198-202 from individual i on
RECURSIVE PrepareLoop(_, _)
PrepareLoop(st, i) ==
    IF i > Len(st.inds) THEN st
    ELSE LET c == get_clone([clones |-> st.clones, calls |-> st.calls], i - 1)
         IN  PrepareLoop(
                 [clones |-> c.clones, calls |-> c.calls,
                  params |-> set_parameters(st.params, c.clone, st.inds[i].genome),
                  inds |-> [st.inds EXCEPT ![i].clonename = c.clonename],
                  used |-> Append(st.used, c.clone)],
                 i + 1)

SetIndividuals(inds) ==
    /\ population' = IF target = "population" THEN inds ELSE population
    /\ offspring' = IF target = "population" THEN offspring ELSE inds

\* next statement of batch_evaluate
NextStatement ==
    /\ bpc' = bpc + 1
    /\ pc' = pc

BE_Prepare ==
    /\ AtStep("prepare")
    /\ LET st == PrepareLoop([clones |-> clones, calls |-> clone_calls,
                              params |-> clone_params, inds |-> individuals,
                              used |-> <<>>], 1)
       IN  /\ clones' = st.clones
           /\ clone_calls' = st.calls
           /\ clone_params' = st.params
           /\ SetIndividuals(st.inds)
           /\ log' = log \o <<[e |-> "batch", a |-> generation, used |-> st.used]>>
                         \o [k \in 1..(Len(st.calls) - Len(clone_calls)) |->
                                Event("clone", Len(clone_calls) + k)]
    /\ runs' = {}
    /\ obvals' = <<>>
    /\ NextStatement
    /\ UNCHANGED filevars
    /\ UNCHANGED <<test, keep_clones, population_size, max_generations, ret, target,
                   generation, next_id, evaltimes, timeouts, store, budget, saved,
                   test_counts, observerfile>>

\* mean_generation_time().seconds: the whole seconds of sum / len
mean_generation_seconds(times) == SumSeq(times) \div Len(times)

\* safety factor on the mean generation time
TimeoutFactor == 3

\* rtime: lines 204-207 (<<>> is the empty dict)
rtime == IF Len(evaltimes) > 0
         THEN <<mean_generation_seconds(evaltimes) * TimeoutFactor>>
         ELSE <<>>

\* a defect of a batch: clone i yields no run (k = 0), or its run holds n
\* records (none, or several) of indicator k
Sites(n) ==
    {[i |-> i, k |-> 0, n |-> 0] : i \in 1..n}
    \cup {[i |-> i, k |-> k, n |-> c] :
            i \in 1..n, k \in 1..Len(indicators), c \in RecordCounts \ {1}}

\* the defects that can join the set D: at most one per clone and indicator,
\* and none beside a missing run
Compatible(n, D) ==
    {t \in Sites(n) :
        \A d \in D : d.i = t.i => (d.k # t.k /\ d.k # 0 /\ t.k # 0)}

\* the sets of at most f defects
RECURSIVE DefectSets(_, _)
DefectSets(n, f) ==
    IF f = 0 THEN {{}}
    ELSE DefectSets(n, f - 1)
         \cup UNION {{D \cup {s} : s \in Compatible(n, D)} :
                        D \in DefectSets(n, f - 1)}

\* the number of records of indicator k in the run of clone i
Counts(D, i) ==
    [k \in 1..Len(indicators) |->
        IF \E d \in D : d.i = i /\ d.k = k
        THEN (CHOOSE d \in D : d.i = i /\ d.k = k).n
        ELSE 1]

\* project.cluster.run_parallel(clones, timeout=rtime, indicators=...) returns
BE_Run ==
    /\ AtStep("run")
    /\ \E D \in DefectSets(Len(individuals), budget.faults) :
        LET new == {Run([batch |-> Len(timeouts) + 1, k |-> i],
                        individuals[i].clonename,
                        clone_params[clones[individuals[i].clonename]],
                        Counts(D, i)) :
                    i \in {j \in 1..Len(individuals) :
                             ~\E d \in D : d.i = j /\ d.k = 0}}
        IN  /\ runs' = new
            /\ store' = store \cup new
            /\ budget' = [budget EXCEPT !.faults = @ - Cardinality(D)]
    /\ timeouts' = Append(timeouts, rtime)
    /\ NextStatement
    /\ UNCHANGED filevars
    /\ UNCHANGED <<test, keep_clones, population_size, max_generations, ret, target,
                   generation, population, offspring, next_id, clones, clone_calls,
                   clone_params, evaltimes, obvals, saved, test_counts,
                   observerfile, log>>

\* where an exception raised in batch_evaluate leads: neither ea.run() nor
\* __call__ (lines 144-157) catches it
PropagatesCaught == "finalize"

Propagates == "aborted"

\* run_parallel raises: the executor or the storage fails
BE_RunRaises ==
    /\ AtStep("run")
    /\ timeouts' = Append(timeouts, rtime)
    /\ log' = Append(log, Event("executor_raises", generation))
    /\ pc' = Propagates
    /\ bpc' = 0
    /\ UNCHANGED filevars
    /\ UNCHANGED <<test, keep_clones, population_size, max_generations, ret, target,
                   generation, population, offspring, next_id, clones, clone_calls,
                   clone_params, evaltimes, runs, obvals, store, budget, saved,
                   test_counts, observerfile>>

\* objective_values = self.retrieve_objectives(runs): the query set is read
\* from the browser when it is iterated
BE_Retrieve ==
    /\ AtStep("retrieve")
    /\ obvals' = retrieve_objectives(runs \cap store)
    /\ log' = Append(log, Event("read", generation))
    /\ NextStatement
    /\ UNCHANGED filevars
    /\ UNCHANGED <<test, keep_clones, population_size, max_generations, ret, target,
                   generation, population, offspring, next_id, clones, clone_calls,
                   clone_params, evaltimes, timeouts, runs, store, budget, saved,
                   test_counts, observerfile>>

\* runs.delete()
BE_Delete ==
    /\ AtStep("delete")
    /\ store' = store \ runs
    /\ budget' = budget
    /\ log' = Append(log, Event("delete", generation))
    /\ NextStatement
    /\ UNCHANGED filevars
    /\ UNCHANGED <<test, keep_clones, population_size, max_generations, ret, target,
                   generation, population, offspring, next_id, clones, clone_calls,
                   clone_params, evaltimes, timeouts, runs, obvals, saved,
                   test_counts, observerfile>>

\* the individuals before the first one whose clone has no objective values
AssignableAtomic(inds) ==
    IF \A j \in 1..Len(inds) : inds[j].clonename \in DOMAIN obvals
    THEN 1..Len(inds) ELSE {}

Assignable(inds) ==
    {i \in 1..Len(inds) :
        \A j \in 1..i : inds[j].clonename \in DOMAIN obvals}

\* lines 215-216: a missing key raises KeyError and ends the loop
BE_Assign ==
    /\ AtStep("assign")
    /\ LET ok == Assignable(individuals)
       IN  /\ SetIndividuals([i \in 1..Len(individuals) |->
                  IF i \in ok
                  THEN [individuals[i] EXCEPT
                           !.objective_values = obvals[individuals[i].clonename]]
                  ELSE individuals[i]])
           /\ IF Cardinality(ok) = Len(individuals)
              THEN /\ NextStatement
                   /\ log' = log
              ELSE /\ pc' = Propagates
                   /\ bpc' = 0
                   /\ log' = Append(log, Event("KeyError", generation))
    /\ UNCHANGED filevars
    /\ UNCHANGED <<test, keep_clones, population_size, max_generations, ret, target,
                   generation, next_id, clones, clone_calls, clone_params,
                   evaltimes, timeouts, runs, obvals, store, budget, saved, test_counts,
                   observerfile>>

\* self.evaltimes += [dt.datetime.now()-st]; return
BE_Time ==
    /\ AtStep("time")
    /\ \E slow \in {FALSE} \cup {budget.slow > 0} :
        /\ evaltimes' = Append(evaltimes, IF slow THEN Slow ELSE Quick)
        /\ budget' = [budget EXCEPT !.slow = IF slow THEN @ - 1 ELSE @]
    /\ log' = Append(log, Event("returned", generation))
    /\ bpc' = 0
    /\ pc' = ret
    /\ UNCHANGED filevars
    /\ UNCHANGED <<test, keep_clones, population_size, max_generations, ret, target,
                   generation, population, offspring, next_id, clones, clone_calls,
                   clone_params, timeouts, runs, obvals, store, saved, test_counts,
                   observerfile>>

(* ------------------------- observe_population ------------------------- *)

\* the line of one individual: lines 331-334
PopInfo(i) ==
    RowLine(<<generation, i.id_number, i.clonename, i.date_of_birth>>
            \o i.objective_values \o <<i.genome>>)

\* popframe.to_csv(self.observerfile, header=self.ea.generation == 0)
to_csv_with_header(f, cols, lines) ==
    [f EXCEPT !.buf = @ \o <<HeaderLine(cols)>> \o lines]

to_csv(f, cols, lines) ==
    [f EXCEPT !.buf = @ \o (IF generation = 0 THEN <<HeaderLine(cols)>> ELSE <<>>)
                        \o lines]

\* self.observerfile.flush()
no_flush(f) == f

flush(f) == [buf |-> <<>>, disk |-> f.disk \o f.buf]

\* lines 341-348 raise: describe() of a frame without rows has no '50%' and
\* no 'min' to select (KeyError, line 341); mean_generation_time divides by
\* len(self.evaltimes) (line 342)
message_raises == {population = <<>> \/ evaltimes = <<>>}

\* observe_population(ea), called by the algorithm once per generation
Observe ==
    /\ pc = "observe"
    /\ observerfile' =
          flush(to_csv(observerfile,
                       HeaderColumns(parameters, objectives, indicators),
                       [k \in 1..Len(population) |-> PopInfo(population[k])]))
    /\ \E raises \in message_raises :
          /\ log' = Append(log, Event(IF raises THEN "observe_raises" ELSE "logged",
                                     generation))
          /\ pc' = IF raises THEN "aborted" ELSE "ea_loop"
    /\ UNCHANGED filevars
    /\ UNCHANGED <<test, keep_clones, population_size, max_generations, bpc, ret,
                   target, generation, population, offspring, next_id, clones,
                   clone_calls, clone_params, evaltimes, timeouts, runs, obvals,
                   store, budget, saved, test_counts>>

(* ---------------- the algorithm: self.ea.run() (evoalgos) ------------- *)

\* kwargs.setdefault("num_offspring", self.population_size)
num_offspring == population_size

\* batch_evaluate(individuals) is called
CallBatch(which, back) ==
    /\ target' = which
    /\ ret' = back
    /\ pc' = "batch"
    /\ bpc' = 1

\* run(): the start population is evaluated as generation 0
EA_Run ==
    /\ pc = "algo"
    /\ generation' = 0
    /\ population' = [k \in 1..Len(population) |->
                         [population[k] EXCEPT !.date_of_birth = 0]]
    /\ CallBatch("population", "observe")
    /\ UNCHANGED filevars
    /\ UNCHANGED <<test, keep_clones, population_size, max_generations, offspring,
                   next_id, clones, clone_calls, clone_params, evaltimes,
                   timeouts, runs, obvals, store, budget, saved, test_counts,
                   observerfile, log>>

\* step(): the next generation's offspring are created and evaluated
EA_Step ==
    /\ pc = "ea_loop"
    /\ generation < max_generations
    /\ generation' = generation + 1
    /\ offspring' = [k \in 1..num_offspring |->
                        Individual(next_id + k - 1, generation + 1)]
    /\ next_id' = next_id + num_offspring
    /\ CallBatch("offspring", "select")
    /\ UNCHANGED filevars
    /\ UNCHANGED <<test, keep_clones, population_size, max_generations, population,
                   clones, clone_calls, clone_params, evaltimes, timeouts, runs,
                   obvals, store, budget, saved, test_counts, observerfile, log>>

\* step(): population_size survivors are selected: the first parents and
\* the first k offspring
EA_Select ==
    /\ pc = "select"
    /\ \E k \in 0..population_size :
        /\ k <= Len(offspring)
        /\ population' = SubSeq(population, 1, population_size - k)
                         \o SubSeq(offspring, 1, k)
    /\ offspring' = <<>>
    /\ pc' = "observe"
    /\ UNCHANGED filevars
    /\ UNCHANGED <<test, keep_clones, population_size, max_generations, bpc, ret,
                   target, generation, next_id, clones, clone_calls, clone_params,
                   evaltimes, timeouts, runs, obvals, store, budget, saved,
                   test_counts, observerfile, log>>

\* run() returns when max_generations generations are produced
EA_Stop ==
    /\ pc = "ea_loop"
    /\ generation >= max_generations
    /\ pc' = "finalize"
    /\ UNCHANGED filevars
    /\ UNCHANGED <<test, keep_clones, population_size, max_generations, bpc, ret,
                   target, generation, population, offspring, next_id, clones,
                   clone_calls, clone_params, evaltimes, timeouts, runs, obvals,
                   store, budget, saved, test_counts, observerfile, log>>

(* ------------------------ __call__ after the run ---------------------- *)

\* the handles of self.clones.values(), in the order of their creation
CloneHandlesButLast ==
    LET hs == {clones[cn] : cn \in DOMAIN clones}
        all == Pick([h \in 1..Len(clone_calls) |-> h], hs, 1)
    IN  SubSeq(all, 1, Len(all) - 1)

CloneHandles ==
    LET hs == {clones[cn] : cn \in DOMAIN clones}
    IN  Pick([h \in 1..Len(clone_calls) |-> h], hs, 1)

\* where __call__ goes after lines 150-154: line 156, reset_ids
AfterClonesSaves == "save"

AfterClones == "reset"

\* lines 150-151: the final population is run again in the clones
FinalBatch ==
    /\ pc = "finalize"
    /\ keep_clones
    /\ CallBatch("population", AfterClones)
    /\ UNCHANGED filevars
    /\ UNCHANGED <<test, keep_clones, population_size, max_generations, generation,
                   population, offspring, next_id, clones, clone_calls,
                   clone_params, evaltimes, timeouts, runs, obvals, store, budget, saved,
                   test_counts, observerfile, log>>

\* lines 152-154: every clone is removed
RemoveClones ==
    /\ pc = "finalize"
    /\ ~keep_clones
    /\ log' = log \o [k \in 1..Len(CloneHandles) |-> Event("remove", CloneHandles[k])]
    /\ pc' = AfterClones
    /\ UNCHANGED filevars
    /\ UNCHANGED <<test, keep_clones, population_size, max_generations, bpc, ret,
                   target, generation, population, offspring, next_id, clones,
                   clone_calls, clone_params, evaltimes, timeouts, runs, obvals,
                   store, budget, saved, test_counts, observerfile>>

\* self.project.browser.runs.reset_ids()
ResetIds ==
    /\ pc = "reset"
    /\ log' = Append(log, Event("reset_ids", generation))
    /\ pc' = "save"
    /\ UNCHANGED filevars
    /\ UNCHANGED <<test, keep_clones, population_size, max_generations, bpc, ret,
                   target, generation, population, offspring, next_id, clones,
                   clone_calls, clone_params, evaltimes, timeouts, runs, obvals,
                   store, budget, saved, test_counts, observerfile>>

\* pd.read_csv of the lines of a file: the first line is the header
read_csv(lines) ==
    [cols |-> lines[1].cols,
     rows |-> [k \in 1..(Len(lines) - 1) |-> lines[k + 1].cells]]

\* the mean of a column of objective values: (real + sentinels * nanval) / n
Mean(vals) ==
    [real |-> SumSeq([k \in 1..Len(vals) |-> IF vals[k] = nanval THEN 0 ELSE vals[k].m]),
     sentinels |-> Cardinality({k \in 1..Len(vals) : vals[k] = nanval}),
     n |-> Len(vals)]

\* _save_run: the run saved from the last generation of the population file
SavedRun(pops) ==
    LET lastgen == last_generation(pops.rows)
        first == Len(output_attribute_columns) - IndexColumns
    IN  [indicators |-> [k \in 1..Len(pops.objectives) |->
                            [name |-> pops.indicators[pops.objectives[k]],
                             mean_final_population |->
                                Mean([r \in 1..Len(lastgen) |->
                                        lastgen[r][IndexColumns + first + k]])]],
         parameters |-> pops.parameters,
         tags |-> {prefix, algorithm},
         notes |-> <<population_size, max_generations>>,
         file |-> to_run(pops)]

\* run = self._save_run(); return run
SaveRun ==
    /\ pc = "save"
    /\ LET pops == from_csv(read_csv(observerfile.disk))
       IN  IF pops.error
           THEN /\ pc' = "aborted"
                /\ saved' = saved
                /\ log' = Append(log, Event("read_raises", generation))
           ELSE /\ pc' = "done"
                /\ saved' = Append(saved, SavedRun(pops))
                /\ log' = Append(log, Event("save_run", generation))
    /\ UNCHANGED filevars
    /\ UNCHANGED <<test, keep_clones, population_size, max_generations, bpc, ret,
                   target, generation, population, offspring, next_id, clones,
                   clone_calls, clone_params, evaltimes, timeouts, runs, obvals,
                   store, budget, test_counts, observerfile>>

(* --------------------------- specification ---------------------------- *)

Next ==
    \/ Call
    \/ RunTests
    \/ EA_Run
    \/ BE_Prepare
    \/ BE_Run
    \/ BE_RunRaises
    \/ BE_Retrieve
    \/ BE_Delete
    \/ BE_Assign
    \/ BE_Time
    \/ EA_Select
    \/ Observe
    \/ EA_Step
    \/ EA_Stop
    \/ FinalBatch
    \/ RemoveClones
    \/ ResetIds
    \/ SaveRun

Spec == Init /\ [][Next]_vars

(* ------------------------------ the run ------------------------------- *)

\* the events named e, in order
EventsNamed(e) ==
    LET Named(x) == x.e = e
    IN  SelectSeq(log, Named)

\* the positions of the log holding an event named e
Positions(e) == {p \in 1..Len(log) : log[p].e = e}

\* the data lines of generation g on the disk
RowsOnDisk(g) ==
    {k \in 1..Len(observerfile.disk) :
        /\ ~observerfile.disk[k].header
        /\ observerfile.disk[k].cells[1] = g}

\* one record of every indicator
AllOnes == [k \in 1..Len(indicators) |-> 1]

\* the run of the batch that carries the tag of individual i
RunOf(i) == {r \in runs : r.tags = i.clonename}

\* C1: the batch evaluation of generation n+1 starts only when all rows of
\* generation n are written and flushed to the population file, and batch
\* evaluations and loggings alternate, generation by generation.
C1_GenerationsSequential ==
    /\ (pc = "batch" /\ generation >= 1) =>
          /\ observerfile.buf = <<>>
          /\ Cardinality(RowsOnDisk(IF target = "offspring" THEN generation - 1
                                                          ELSE generation))
                = population_size
    /\ LET BatchOrLogged(x) == x.e \in {"batch", "logged"}
           ev == SelectSeq(log, BatchOrLogged)
       IN  \A k \in 1..Len(ev) :
              /\ ev[k].e = IF k % 2 = 1 THEN "batch" ELSE "logged"
              /\ ev[k].a = IF (k - 1) \div 2 <= max_generations
                           THEN (k - 1) \div 2 ELSE max_generations

C1_Witness ==
    /\ pc = "batch"
    /\ target = "offspring"
    /\ generation = 1
    /\ bpc > 1
    /\ Cardinality(RowsOnDisk(0)) = population_size

\* C2: project.clone is called at most once per clone name, and two batch
\* evaluations of the same size use the same handle at every index, the
\* later one creating no clone.
C2_CloneReuse ==
    /\ \A a, b \in 1..Len(clone_calls) :
          clone_calls[a] = clone_calls[b] => a = b
    /\ \A p, q \in Positions("batch") :
          (p < q /\ Len(log[p].used) = Len(log[q].used)) =>
              /\ log[p].used = log[q].used
              /\ (q < Len(log) => log[q + 1].e # "clone")

C2_Witness ==
    \E p, q \in Positions("batch") :
        /\ p < q
        /\ Len(log[p].used) = MaxPop
        /\ log[p].used = log[q].used

\* C3: after the assignment of a batch, an objective whose indicator has no
\* record or several records in the individual's run is the sentinel 2e31,
\* every other objective of every individual is the value its run holds, and
\* the assignment raises only when the executor returned no run for a clone.
C3_SentinelSubstitution ==
    /\ AtStep("time") =>
          \A i \in 1..Len(individuals) :
              \E r \in RunOf(individuals[i]) :
                  \A k \in 1..Len(indicators) :
                      individuals[i].objective_values[k] =
                          IF Len(r.ri[k]) = 1
                          THEN Sim(individuals[i].genome, k)
                          ELSE Float(2, 31)
    /\ (log # <<>> /\ log[Len(log)].e = "KeyError") =>
          \E i \in 1..Len(individuals) : RunOf(individuals[i]) = {}

C3_Witness ==
    /\ AtStep("time")
    /\ Len(individuals) = MaxPop
    /\ \E r \in runs : \E k \in 1..Len(indicators) : Len(r.ri[k]) # 1
    /\ individuals[1].objective_values = <<Float(2, 31), Sim(individuals[1].genome, 2)>>
    /\ individuals[2].objective_values =
          <<Sim(individuals[2].genome, 1), Sim(individuals[2].genome, 2)>>

\* the run left the self-test: nothing was evaluated, cloned or logged
AbortedBeforeLoop ==
    /\ pc = "aborted"
    /\ Positions("batch") = {}
    /\ clones = <<>>
    /\ observerfile.disk = <<>>

\* C4 as stated: when the self-test's run has not exactly one record per
\* declared indicator, the run aborts before the generational loop.
C4_Original ==
    (test_counts # <<>> /\ test_counts # AllOnes) => AbortedBeforeLoop

\* C4 amended: when the number of indicator records of the self-test's run
\* differs from the number of declared indicators, the run aborts before the
\* generational loop: no generation is evaluated, no clone of the clone
\* mapping is created and no line is written to the population file.
C4_SelfTestGating ==
    (test_counts # <<>> /\ SumSeq(test_counts) # Len(indicators))
        => AbortedBeforeLoop

C4_Witness ==
    /\ test_counts # <<>>
    /\ SumSeq(test_counts) # Len(indicators)
    /\ pc = "aborted"

\* C5: test=True runs the self-test and returns with no generation
\* evaluated, no clone of the mapping removed and no run saved; test=False
\* never runs the self-test; test=None evaluates generations only after the
\* self-test passed.
C5_TestArgument ==
    /\ test = "True" =>
          /\ Positions("batch") = {}
          /\ \A p \in Positions("remove") : log[p].a = 0
          /\ saved = <<>>
          /\ pc \in {"call", "tests", "done", "aborted"}
          /\ (pc = "done" => Positions("test") # {})
    /\ test = "False" =>
          /\ test_counts = <<>>
          /\ Positions("test") = {}
    /\ test = "None" =>
          \A p \in Positions("batch") :
              \E q \in Positions("test") : q < p /\ log[q].a = 1

C5_Witness ==
    /\ test = "True"
    /\ pc = "done"
    /\ test_counts = AllOnes

\* C6: the run records of a batch are deleted only after the indicator
\* values of every run of the batch are read, and no run record of the batch
\* is in the store when batch_evaluate has returned.
C6_DeleteAfterRead ==
    /\ (pc = "batch" /\ \E r \in runs : r \notin store) =>
          \A r \in runs :
              /\ r.tags \in DOMAIN obvals
              /\ \A k \in 1..Len(indicators) :
                    Len(r.ri[k]) = 1 => obvals[r.tags][k] = r.ri[k][1]
    /\ (log # <<>> /\ log[Len(log)].e = "returned") => runs \cap store = {}

C6_Witness ==
    /\ AtStep("assign")
    /\ Cardinality(runs) = MaxPop
    /\ runs \cap store = {}
    /\ \A r \in runs : r.tags \in DOMAIN obvals

\* number of remove() calls on handle h
Removals(h) == Cardinality({p \in Positions("remove") : log[p].a = h})

\* the loop has ended and lines 150-154 have run
Finalized == pc = "reset" \/ Positions("reset_ids") # {}

\* C7: after the loop, with keep_clones false every clone of the mapping is
\* removed exactly once and no further batch is evaluated; with keep_clones
\* true exactly one more batch, of population_size individuals, is evaluated
\* and no clone of the mapping is removed.
C7_Finalize ==
    /\ keep_clones => \A p \in Positions("remove") : log[p].a = 0
    /\ (Finalized /\ ~keep_clones) =>
          /\ \A cn \in DOMAIN clones : Removals(clones[cn]) = 1
          /\ Cardinality(Positions("batch")) = max_generations + 1
    /\ (Finalized /\ keep_clones) =>
          /\ Cardinality(Positions("batch")) = max_generations + 2
          /\ \E p \in Positions("batch") :
                /\ \A q \in Positions("batch") \cup Positions("logged") : q <= p
                /\ log[p].a = max_generations
                /\ Len(log[p].used) = population_size

C7_Witness ==
    /\ pc = "done"
    /\ ~keep_clones
    /\ Cardinality(DOMAIN clones) = MaxPop
    /\ \A cn \in DOMAIN clones : Removals(clones[cn]) = 1

C7_WitnessKeep ==
    /\ pc = "done"
    /\ keep_clones
    /\ Cardinality(Positions("batch")) = max_generations + 2

\* the lines of the population file are one header and then the rows of
\* generations 0, 1, ... in this order, population_size rows each
WellFormedFile ==
    LET disk == observerfile.disk
    IN  disk # <<>> =>
          /\ disk[1] = HeaderLine(HeaderColumns(parameters, objectives, indicators))
          /\ \A k \in 2..Len(disk) :
                /\ ~disk[k].header
                /\ disk[k].cells[1] = (k - 2) \div population_size

\* C9: once opened, the population file is empty or holds exactly one header
\* line, its first, followed by the rows of generation 0, 1, ... in logging
\* order; logging appends lines and changes none.
C9_OneHeaderThenRows ==
    /\ [](pc # "call" => WellFormedFile)
    /\ [][pc # "call" =>
            /\ Len(observerfile'.disk) >= Len(observerfile.disk)
            /\ SubSeq(observerfile'.disk, 1, Len(observerfile.disk))
                  = observerfile.disk]_vars

C9_Witness ==
    /\ generation = MaxGenerations
    /\ Len(observerfile.disk) = 1 + (MaxGenerations + 1) * MaxPop
    /\ observerfile.disk[1].header
    /\ observerfile.disk[Len(observerfile.disk)].cells[1] = MaxGenerations

(* ------------------- the population file, on its own ------------------ *)

\* names of parameters and objectives, in sorted order, and of indicators
SortedNames == << <<"a">>, <<"a", ":", "b">>, <<"b">> >>

IndicatorNames == { <<"i">>, <<"i", ":", "j">> }

Ranges == { <<0, 1>>, <<2, 10>> }

\* the non-empty sorted lists of names
NameLists ==
    {Pick(SortedNames, S, 1) : S \in (SUBSET (1..Len(SortedNames))) \ {{}}}

\* column headers of files the run did not write
ColumnTexts ==
    { <<"clone">>, <<"x">>, <<"x", ":", "y">>, <<"foo", ":", "a", ":", "b">>,
      <<"parameter", ":", "a", ":", "(", "0", ",", " ", "1", ")">>,
      <<"parameter", ":", "a", ":", "b">>,
      <<"objective", ":", "o", ":", "i">> }

\* n rows of generation 0 with c columns
Rows(n, c) ==
    [j \in 1..n |-> <<0, j>> \o [k \in 1..(c - IndexColumns) |-> 10 * j + k]]

\* what a run writes: self.parameters, self.objectives, self.indicators and
\* a population of n individuals
GivenByRun ==
    {[kind |-> "run",
      parameters |-> [k \in 1..Len(names) |-> <<names[k], ranges[k]>>],
      objectives |-> objs,
      indicators |-> [k \in 1..Len(objs) |-> inds[k]], n |-> n, cols |-> <<>>] :
        names \in NameLists, objs \in NameLists, n \in 1..MaxRows,
        ranges \in [1..Len(SortedNames) -> Ranges],
        inds \in [1..Len(SortedNames) -> IndicatorNames]}

\* a file from elsewhere: the index columns and up to MaxCols more columns
GivenForeign ==
    {[kind |-> "foreign", parameters |-> <<>>, objectives |-> <<>>,
      indicators |-> <<>>, n |-> n,
      cols |-> << <<"generation">>, <<"id_number">> >> \o cols] :
        n \in 1..MaxRows,
        cols \in UNION {[1..c -> ColumnTexts] : c \in 1..MaxCols}}

InitFile ==
    /\ test = "False"
    /\ keep_clones = FALSE
    /\ population_size = 1
    /\ max_generations = 0
    /\ pc = "off"
    /\ bpc = 0
    /\ ret = "none"
    /\ target = "population"
    /\ generation = 0
    /\ population = <<>>
    /\ offspring = <<>>
    /\ next_id = 1
    /\ clones = <<>>
    /\ clone_calls = <<>>
    /\ clone_params = <<>>
    /\ evaltimes = <<>>
    /\ timeouts = <<>>
    /\ runs = {}
    /\ obvals = <<>>
    /\ store = {}
    /\ budget = [faults |-> 0, slow |-> 0]
    /\ saved = <<>>
    /\ test_counts = <<>>
    /\ observerfile = [buf |-> <<>>, disk |-> <<>>]
    /\ log = <<>>
    /\ given \in GivenByRun \cup GivenForeign
    /\ csv = <<>>
    /\ frame = <<>>
    /\ frame0 = <<>>
    /\ fpc = "given"
    /\ result = <<>>

runvars ==
    <<test, keep_clones, population_size, max_generations, pc, bpc, ret, target,
      generation, population, offspring, next_id, clones, clone_calls,
      clone_params, evaltimes, timeouts, runs, obvals, store, budget, saved,
      test_counts, observerfile, log>>

\* observe_population writes the population of generation 0
F_Observe ==
    /\ fpc = "given"
    /\ given.kind = "run"
    /\ LET cols == HeaderColumns(given.parameters, given.objectives,
                                 given.indicators)
       IN  csv' = [cols |-> cols, rows |-> Rows(given.n, Len(cols))]
    /\ fpc' = "written"
    /\ UNCHANGED <<given, frame, frame0, result>>
    /\ UNCHANGED runvars

\* a file that the run did not write is in place
F_Foreign ==
    /\ fpc = "given"
    /\ given.kind = "foreign"
    /\ csv' = [cols |-> given.cols, rows |-> Rows(given.n, Len(given.cols))]
    /\ fpc' = "written"
    /\ UNCHANGED <<given, frame, frame0, result>>
    /\ UNCHANGED runvars

\* from_csv(path) of the file as written
F_FromCsv ==
    /\ fpc = "written"
    /\ frame' = from_csv(csv)
    /\ frame0' = frame'
    /\ fpc' = IF frame'.error THEN "failed" ELSE "read"
    /\ UNCHANGED <<given, csv, result>>
    /\ UNCHANGED runvars

\* to_run(run) writes the file that is saved with the run
F_ToRun ==
    /\ fpc = "read"
    /\ csv' = to_run(frame)
    /\ fpc' = "saved"
    /\ UNCHANGED <<given, frame, frame0, result>>
    /\ UNCHANGED runvars

\* from_csv(path) of the file saved with the run
F_FromCsvAgain ==
    /\ fpc = "saved"
    /\ frame' = from_csv(csv)
    /\ fpc' = IF frame'.error THEN "failed_again" ELSE "read_again"
    /\ UNCHANGED <<given, csv, frame0, result>>
    /\ UNCHANGED runvars

NextFile ==
    \/ F_Observe
    \/ F_Foreign
    \/ F_FromCsv
    \/ F_ToRun
    \/ F_FromCsvAgain

SpecFile == InitFile /\ [][NextFile]_vars

(* --------------------- the population file: claims -------------------- *)

\* the frame f holds what the run wrote: names, ranges, indicators and rows
Recovered(f) ==
    /\ ~f.error
    /\ f.parameters = [k \in 1..Len(given.parameters) |-> given.parameters[k][1]]
    /\ \A k \in 1..Len(given.parameters) :
          /\ given.parameters[k][1] \in DOMAIN f.parameter_ranges
          /\ f.parameter_ranges[given.parameters[k][1]] = given.parameters[k][2]
    /\ f.objectives = given.objectives
    /\ \A k \in 1..Len(given.objectives) :
          /\ given.objectives[k] \in DOMAIN f.indicators
          /\ f.indicators[given.objectives[k]] = given.indicators[k]
    /\ f.index = << <<"generation">>, <<"id_number">> >>
    /\ f.rows = Rows(given.n, Len(output_attribute_columns)
                              + Len(given.objectives) + Len(given.parameters))

\* a file of the run was read, as written or as saved by to_run
ReadBack ==
    /\ given.kind = "run"
    /\ fpc \in {"read", "failed", "read_again", "failed_again"}

\* C8: reading back a population file written by the run, or saved again by
\* to_run, gives the parameter names and ranges, the objective names and
\* indicators and the rows that were written.
C8_RoundTrip == ReadBack => Recovered(frame)

HasColon(t) == \E k \in 1..Len(t) : t[k] = ":"

\* no name holds a colon and no objective is named like a parameter
PlainNames ==
    /\ \A k \in 1..Len(given.parameters) : ~HasColon(given.parameters[k][1])
    /\ \A k \in 1..Len(given.objectives) :
          /\ ~HasColon(given.objectives[k])
          /\ ~HasColon(given.indicators[k])
          /\ \A j \in 1..Len(given.parameters) :
                given.objectives[k] # given.parameters[j][1]

\* the round trip of C8 for plain names
RoundTripPlainNames == (ReadBack /\ PlainNames) => Recovered(frame)

RoundTripPlainNamesWitness ==
    /\ ReadBack
    /\ PlainNames
    /\ fpc = "read_again"
    /\ Len(given.parameters) = 1
    /\ Len(given.objectives) = 1

\* the header c is neither a metadata column nor of the shape kind:name:meta
\* with kind parameter or objective
Malformed(c) ==
    /\ c \notin {<<output_attribute_columns[k]>> :
                    k \in 1..Len(output_attribute_columns)}
    /\ \/ Len(Split(c)) < 3
       \/ Split(c)[1] \notin {<<"parameter">>, <<"objective">>}

\* the columns of the file besides the index columns
DataColumns == SubSeq(csv.cols, IndexColumns + 1, Len(csv.cols))

BadRange(c) ==
    /\ Len(Split(c)) >= 3
    /\ Split(c)[1] = <<"parameter">>
    /\ ~Eval(Split(c)[3]).ok

\* the name under which the k-th data column of the file is read: its header,
\* followed by a dot and the number of earlier cells with the same header
\* when there are any
AsRead(k) ==
    LET earlier == Cardinality({j \in 1..(IndexColumns + k - 1) :
                                   csv.cols[j] = DataColumns[k]})
    IN  IF earlier = 0 THEN DataColumns[k]
        ELSE DataColumns[k] \o <<".">> \o Str(earlier)

MaxFrameRows == 3

\* the generation numbers of the rows of a file
FrameGenerations == {0, 1, 3}

\* the objective values of a row
FramePoints == { <<1, 4>>, <<2, 2>>, <<4, 1>>, <<3, 3>> }

\* the rows of a file: generation, id_number, clone, birthgeneration, the
\* objective values and the parameter value
FrameRows(gens, pts) ==
    [j \in 1..Len(gens) |-> <<gens[j], j, <<prefix>>, gens[j]>> \o pts[j] \o <<0>>]

\* population files with rows in the order of their generations
FrameFiles ==
    UNION {{[cols |-> HeaderColumns(parameters, objectives, indicators),
             rows |-> FrameRows(gens, pts)] :
               gens \in {g \in [1..n -> FrameGenerations] :
                           \A j \in 1..(n - 1) : g[j] <= g[j + 1]},
               pts \in [1..n -> FramePoints]} :
           n \in 1..MaxFrameRows}

\* an optional positional argument: None or a list
None == [given |-> FALSE, v |-> <<>>]

List(v) == [given |-> TRUE, v |-> v]

\* the minobjectives arguments the selections are called with
MinObjectiveArgs == {None, List(<<3, 3>>), List(<<2, 5>>), List(<<3>>)}

\* the keyword ceilings the selections are called with: a dict over some of
\* the objectives
KeywordCeilings == {2, 5}

KeywordArgs ==
    UNION {[S -> KeywordCeilings] : S \in SUBSET Range(objectives)}

\* self[c]: the values of column c in the given rows
Column(pops, rows, c) ==
    LET pos == CHOOSE k \in 1..Len(pops.columns) : pops.columns[k] = c
    IN  [r \in 1..Len(rows) |-> rows[r][IndexColumns + pos]]

\* max() and min of two numbers
Max(vals) == CHOOSE v \in Range(vals) : \A w \in Range(vals) : w <= v

Min2(x, y) == IF x <= y THEN x ELSE y

RECURSIVE Prod(_)
Prod(s) == IF s = <<>> THEN 1 ELSE s[1] * Prod(Tail(s))

\* the edges of best_tradeoff: lines 550-557
edges(maxs, minobjectives) ==
    IF minobjectives.given
    THEN [k \in 1..Len(maxs) |-> Min2(maxs[k], minobjectives.v[k])]
    ELSE maxs

\* ((vals / e)**2).sum(): the squared distance to the origin of the scaled
\* objective values, as the numerator over the denominator Prod(e)**2 that
\* all rows share
dist(vals, e) ==
    LET others(k) == Prod([j \in 1..Len(e) |-> IF j = k THEN 1 ELSE e[j]])
    IN  SumSeq([k \in 1..Len(e) |->
                  (vals[k] * others(k)) * (vals[k] * others(k))])

\* dist.idxmin(): the position of the first occurrence of the minimum
idxmin_last(d) ==
    CHOOSE r \in 1..Len(d) :
        /\ \A q \in 1..Len(d) : d[r] <= d[q]
        /\ \A q \in (r + 1)..Len(d) : d[q] > d[r]

idxmin(d) ==
    CHOOSE r \in 1..Len(d) :
        /\ \A q \in 1..Len(d) : d[r] <= d[q]
        /\ \A q \in 1..(r - 1) : d[q] > d[r]

\* what a method returns: the rows, or raised an exception
Returned(rows) == [raised |-> FALSE, rows |-> rows]

Raised == [raised |-> TRUE, rows |-> <<>>]

\* best_tradeoff(minobjectives)
best_tradeoff(pops, minobjectives) ==
    IF minobjectives.given /\ Len(minobjectives.v) # Len(pops.objectives)
    THEN Raised
    ELSE LET lastgen == last_generation(pops.rows)
             obs == [r \in 1..Len(lastgen) |->
                        [k \in 1..Len(pops.objectives) |->
                            Column(pops, lastgen, pops.objectives[k])[r]]]
             maxs == [k \in 1..Len(pops.objectives) |->
                         Max(Column(pops, lastgen, pops.objectives[k]))]
             e == edges(maxs, minobjectives)
             d == [r \in 1..Len(lastgen) |-> dist(obs[r], e)]
             label == lastgen[idxmin(d)][IndexColumns]
         IN  Returned(Pick(lastgen,
                           {r \in 1..Len(lastgen) : lastgen[r][IndexColumns] = label},
                           1))

\* dict(zip(keys, vals))
DictZip(keys, vals) ==
    [x \in Range(keys) |->
        vals[CHOOSE k \in 1..Len(keys) :
                /\ keys[k] = x
                /\ \A j \in (k + 1)..Len(keys) : keys[j] # x]]

\* d.update(e)
Update(d, e) ==
    [x \in DOMAIN d \cup DOMAIN e |-> IF x \in DOMAIN e THEN e[x] ELSE d[x]]

\* lg[o] < v
BelowOrEqual(x, v) == x <= v

Below(x, v) == x < v

\* select_min_objectives(minobjectives, **minobjkwargs)
select_min_objectives(pops, minobjectives, minobjkwargs) ==
    IF minobjectives.given /\ Len(minobjectives.v) # Len(pops.objectives)
    THEN Raised
    ELSE LET kw == IF minobjectives.given
                   THEN Update(minobjkwargs,
                               DictZip(pops.objectives, minobjectives.v))
                   ELSE minobjkwargs
             lastgen == last_generation(pops.rows)
         IN  Returned(Pick(lastgen,
                 {r \in 1..Len(lastgen) :
                     \A o \in DOMAIN kw :
                         Below(Column(pops, lastgen, o)[r], kw[o])},
                 1))

\* no optimisation is running
IdleRun ==
    /\ test = "False"
    /\ keep_clones = FALSE
    /\ population_size = 1
    /\ max_generations = 0
    /\ pc = "off"
    /\ bpc = 0
    /\ ret = "none"
    /\ target = "population"
    /\ generation = 0
    /\ population = <<>>
    /\ offspring = <<>>
    /\ next_id = 1
    /\ clones = <<>>
    /\ clone_calls = <<>>
    /\ clone_params = <<>>
    /\ evaltimes = <<>>
    /\ timeouts = <<>>
    /\ runs = {}
    /\ obvals = <<>>
    /\ store = {}
    /\ budget = [faults |-> 0, slow |-> 0]
    /\ saved = <<>>
    /\ test_counts = <<>>
    /\ observerfile = [buf |-> <<>>, disk |-> <<>>]
    /\ log = <<>>

InitFrame ==
    /\ IdleRun
    /\ given = <<>>
    /\ csv \in FrameFiles
    /\ frame = <<>>
    /\ frame0 = <<>>
    /\ fpc = "file"
    /\ result = <<>>

\* from_csv(path) of the file
P_FromCsv ==
    /\ fpc = "file"
    /\ frame' = from_csv(csv)
    /\ fpc' = IF frame'.error THEN "failed" ELSE "frame"
    /\ UNCHANGED <<given, csv, frame0, result>>
    /\ UNCHANGED runvars

\* pops.last_generation
P_LastGeneration ==
    /\ fpc = "frame"
    /\ result' = [op |-> "last_generation", minobjectives |-> None,
                  minobjkwargs |-> <<>>,
                  out |-> Returned(last_generation(frame.rows))]
    /\ fpc' = "result"
    /\ UNCHANGED <<given, csv, frame, frame0>>
    /\ UNCHANGED runvars

\* pops.best_tradeoff(minobjectives)
P_BestTradeoff ==
    /\ fpc = "frame"
    /\ \E m \in MinObjectiveArgs :
          result' = [op |-> "best_tradeoff", minobjectives |-> m,
                     minobjkwargs |-> <<>>, out |-> best_tradeoff(frame, m)]
    /\ fpc' = "result"
    /\ UNCHANGED <<given, csv, frame, frame0>>
    /\ UNCHANGED runvars

\* pops.select_min_objectives(minobjectives, **minobjkwargs)
P_SelectMinObjectives ==
    /\ fpc = "frame"
    /\ \E m \in MinObjectiveArgs, kw \in KeywordArgs :
          result' = [op |-> "select_min_objectives", minobjectives |-> m,
                     minobjkwargs |-> kw,
                     out |-> select_min_objectives(frame, m, kw)]
    /\ fpc' = "result"
    /\ UNCHANGED <<given, csv, frame, frame0>>
    /\ UNCHANGED runvars

NextFrame ==
    \/ P_FromCsv
    \/ P_LastGeneration
    \/ P_BestTradeoff
    \/ P_SelectMinObjectives

SpecFrame == InitFrame /\ [][NextFrame]_vars

(* ---------------------- the populations frame: claims ----------------- *)

\* the file was read
FrameRead == fpc \in {"frame", "failed", "result"}

\* the rows of the file whose generation is the highest present
LastRows ==
    LET SameAsLast(row) == \A k \in 1..Len(csv.rows) : csv.rows[k][1] <= row[1]
    IN  SelectSeq(csv.rows, SameAsLast)

\* the value of objective k in a row of the file
Obj(row, k) == row[Len(output_attribute_columns) + k]

\* C11 as stated: reading a file whose generation numbers are not
\* contiguous fails.
C11_Original == (FrameRead /\ ~Contiguous(csv.rows)) => frame.error

\* C11 amended: reading a population file does not fail when its generation
\* numbers are not contiguous: the store holds every row of the file, and
\* last_generation returns the rows of the highest generation present.
C11_GapsAccepted ==
    /\ FrameRead => (~frame.error /\ frame.rows = csv.rows)
    /\ (fpc = "result" /\ result.op = "last_generation") =>
          (~result.out.raised /\ result.out.rows = LastRows)

C11_Witness ==
    /\ fpc = "result"
    /\ result.op = "last_generation"
    /\ {csv.rows[k][1] : k \in 1..Len(csv.rows)} = {0, 1, 3}
    /\ ~frame.error
    /\ Len(result.out.rows) = 1
    /\ result.out.rows[1][1] = 3

\* the ceiling objective k is divided by
Ceiling(k) ==
    LET genmax == CHOOSE v \in {Obj(LastRows[r], k) : r \in 1..Len(LastRows)} :
                      \A r \in 1..Len(LastRows) : Obj(LastRows[r], k) <= v
    IN  IF result.minobjectives.given /\ result.minobjectives.v[k] < genmax
        THEN result.minobjectives.v[k]
        ELSE genmax

\* row x is nearer to the origin than row y (-1), as near (0) or farther (1),
\* after each objective is divided by its ceiling: the squared distances
\* (x1/c1)^2 + (x2/c2)^2 are compared over the denominator (c1*c2)^2
Nearer(x, y) ==
    LET c1 == Ceiling(1)
        c2 == Ceiling(2)
        dx == (Obj(x, 1) * c2) * (Obj(x, 1) * c2) + (Obj(x, 2) * c1) * (Obj(x, 2) * c1)
        dy == (Obj(y, 1) * c2) * (Obj(y, 1) * c2) + (Obj(y, 2) * c1) * (Obj(y, 2) * c1)
    IN  IF dx < dy THEN -1 ELSE IF dx = dy THEN 0 ELSE 1

\* C13: best_tradeoff returns the row of the last generation that is nearest
\* to the origin after each objective is divided by min(ceiling, generation
\* maximum), or by the generation maximum without ceilings; of several
\* nearest rows it returns the first in row order.
C13_BestTradeoff ==
    (fpc = "result" /\ result.op = "best_tradeoff" /\ ~result.out.raised) =>
        /\ Len(result.out.rows) = 1
        /\ \E r \in 1..Len(LastRows) :
              /\ result.out.rows[1] = LastRows[r]
              /\ \A q \in 1..Len(LastRows) :
                    /\ Nearer(LastRows[q], LastRows[r]) >= 0
                    /\ q < r => Nearer(LastRows[q], LastRows[r]) = 1

C13_Witness ==
    /\ fpc = "result"
    /\ result.op = "best_tradeoff"
    /\ ~result.minobjectives.given
    /\ Len(LastRows) = MaxFrameRows
    /\ Obj(LastRows[1], 1) = 3 /\ Obj(LastRows[1], 2) = 3
    /\ Obj(LastRows[2], 1) = 1 /\ Obj(LastRows[2], 2) = 4
    /\ Obj(LastRows[3], 1) = 4 /\ Obj(LastRows[3], 2) = 1
    /\ result.out.rows = <<LastRows[2]>>

\* the rows of the last generation whose objectives are below the ceilings
\* c, a dict over some of the objectives
BelowCeilings(c) ==
    LET Keep(row) ==
            \A k \in 1..Len(objectives) :
                objectives[k] \in DOMAIN c => Obj(row, k) < c[objectives[k]]
    IN  SelectSeq(LastRows, Keep)

\* select_min_objectives was called with a list of the right length
ListGiven ==
    /\ fpc = "result"
    /\ result.op = "select_min_objectives"
    /\ result.minobjectives.given
    /\ Len(result.minobjectives.v) = Len(objectives)

\* C14: select_min_objectives returns exactly the rows of the last
\* generation in which every objective with a ceiling is strictly below it,
\* the ceilings given by keyword or as a list.
C14_SelectMinObjectives ==
    /\ (fpc = "result" /\ result.op = "select_min_objectives"
           /\ ~result.minobjectives.given) =>
          /\ ~result.out.raised
          /\ result.out.rows = BelowCeilings(result.minobjkwargs)
    /\ (ListGiven /\ DOMAIN result.minobjkwargs = {}) =>
          /\ ~result.out.raised
          /\ result.out.rows =
                BelowCeilings([o \in Range(objectives) |->
                    result.minobjectives.v[CHOOSE k \in 1..Len(objectives) :
                                              objectives[k] = o]])

C14_Witness ==
    /\ ListGiven
    /\ result.minobjectives.v = <<3, 3>>
    /\ DOMAIN result.minobjkwargs = {}
    /\ Len(csv.rows) = MaxFrameRows
    /\ Len(LastRows) = 2
    /\ Obj(LastRows[1], 1) = 3 /\ Obj(LastRows[1], 2) = 3
    /\ Obj(LastRows[2], 1) = 2 /\ Obj(LastRows[2], 2) = 2
    /\ Obj(csv.rows[1], 1) = 2 /\ Obj(csv.rows[1], 2) = 2
    /\ result.out.rows = <<LastRows[2]>>

\* C15: with a list and a keyword ceiling for the same objective, the
\* keyword ceiling is the one the filter uses.
C15_KeywordOverrides ==
    ListGiven =>
        result.out.rows =
            BelowCeilings([o \in Range(objectives) |->
                IF o \in DOMAIN result.minobjkwargs
                THEN result.minobjkwargs[o]
                ELSE result.minobjectives.v[CHOOSE k \in 1..Len(objectives) :
                                               objectives[k] = o]])

(* ------------------ observe_population, called on its own ------------- *)

\* the objective values an evaluated individual can hold
EvaluatedValues(g) ==
    {<<v1, v2>> : v1 \in {Sim(g, 1), nanval}, v2 \in {Sim(g, 2), nanval}}

\* the populations of n evaluated individuals in generation g
Populations(n, g) ==
    {[k \in 1..n |->
        [id_number |-> k, genome |-> k, clonename |-> CloneName(k - 1),
         date_of_birth |-> born[k], objective_values |-> vals[k]]] :
      born \in [1..n -> 0..g],
      vals \in [1..n -> UNION {EvaluatedValues(k) : k \in 1..n}]}

\* the population file after generations 0 .. g - 1 of n individuals
FileBefore(n, g) ==
    IF g = 0 THEN <<>>
    ELSE <<HeaderLine(HeaderColumns(parameters, objectives, indicators))>>
         \o [j \in 1..(n * g) |->
                RowLine(<<(j - 1) \div n, ((j - 1) % n) + 1,
                          CloneName((j - 1) % n), 0,
                          Sim(((j - 1) % n) + 1, 1), Sim(((j - 1) % n) + 1, 2),
                          ((j - 1) % n) + 1>>)]

\* the algorithm notifies observe_population of generation g
InitObserve ==
    /\ test = "False"
    /\ keep_clones = FALSE
    /\ population_size \in 0..MaxPop
    /\ max_generations = MaxGenerations
    /\ pc = "observe"
    /\ bpc = 0
    /\ ret = "none"
    /\ target = "population"
    /\ generation \in 0..MaxGenerations
    /\ population \in Populations(population_size, generation)
    /\ offspring = <<>>
    /\ next_id = population_size + 1
    /\ clones = <<>>
    /\ clone_calls = <<>>
    /\ clone_params = <<>>
    /\ evaltimes = [k \in 1..(generation + 1) |-> Quick]
    /\ timeouts = <<>>
    /\ runs = {}
    /\ obvals = <<>>
    /\ store = {}
    /\ budget = [faults |-> 0, slow |-> 0]
    /\ saved = <<>>
    /\ test_counts = <<>>
    /\ observerfile = [buf |-> <<>>, disk |-> FileBefore(population_size, generation)]
    /\ log = <<>>
    /\ given = <<>>
    /\ csv = <<>>
    /\ frame = <<>>
    /\ frame0 = <<>>
    /\ fpc = "off"
    /\ result = <<>>

NextObserve == Observe

SpecObserve == InitObserve /\ [][NextObserve]_vars

\* C12 as stated: logging an empty population raises and adds nothing to
\* the population file.
C12_Original ==
    [][(pc = "observe" /\ population = <<>>) =>
          /\ pc' = "aborted"
          /\ observerfile'.disk = observerfile.disk]_vars

\* C12 amended: logging an empty population raises an error, after the file
\* was written and flushed: in generation 0 the header line has been added to
\* the population file, in a later generation nothing, and in no generation a
\* row.
C12_EmptyPopulation ==
    [][(pc = "observe" /\ population = <<>>) =>
          /\ pc' = "aborted"
          /\ log'[Len(log')].e = "observe_raises"
          /\ observerfile'.buf = <<>>
          /\ observerfile'.disk =
                observerfile.disk
                \o (IF generation = 0
                    THEN <<HeaderLine(HeaderColumns(parameters, objectives,
                                                    indicators))>>
                    ELSE <<>>)]_vars

C12_Witness ==
    /\ pc = "aborted"
    /\ log # <<>>
    /\ log[Len(log)].e = "observe_raises"
    /\ population = <<>>
    /\ generation = 0
    /\ observerfile.disk =
          <<HeaderLine(HeaderColumns(parameters, objectives, indicators))>>

(* ------------------------- the run: further claims -------------------- *)

\* C19: within every generation written to the population file, no two rows
\* carry the same clone name.
C19_TagsUnique ==
    \A j, k \in 1..Len(observerfile.disk) :
        (/\ j # k
         /\ ~observerfile.disk[j].header
         /\ ~observerfile.disk[k].header
         /\ observerfile.disk[j].cells[1] = observerfile.disk[k].cells[1])
        => observerfile.disk[j].cells[3] # observerfile.disk[k].cells[3]

\* C20: a run saves at most one summary run; it saves it as its last step,
\* after the identifier sequence is reset, which comes after the last
\* generation is logged and after the clones are removed or the final batch
\* has returned; a run that returns normally, test=True aside, has saved
\* one; a run that aborted or was called with test=True has saved none.
C20_SummaryRun ==
    /\ Len(saved) <= 1
    /\ Len(saved) = Cardinality(Positions("save_run"))
    /\ \A p \in Positions("save_run") :
          /\ p = Len(log)
          /\ \E q \in Positions("reset_ids") :
                /\ q < p
                /\ \A x \in Positions("logged") \cup Positions("batch")
                            \cup Positions("returned") \cup Positions("remove") :
                      x < q
                /\ \E x \in Positions("logged") : log[x].a = max_generations
                /\ IF keep_clones
                   THEN Cardinality(Positions("returned")) = max_generations + 2
                   ELSE \A cn \in DOMAIN clones : Removals(clones[cn]) = 1
    /\ (pc = "aborted" \/ test = "True") => saved = <<>>
    /\ (pc = "done" /\ test # "True") => Len(saved) = 1

C20_Witness ==
    /\ pc = "done"
    /\ Len(saved) = 1
    /\ keep_clones
    /\ max_generations = MaxGenerations
    /\ population_size = MaxPop
    /\ Len(saved[1].file.rows) = (MaxGenerations + 1) * MaxPop

(* --------------------- __call__ with its arguments -------------------- *)

\* the names of the arguments, in ascending order of their strings
Alphabet == <<"a", "b", "c">>

\* the place of the name t, a text of one letter, in the order of strings
NameRank(t) == CHOOSE k \in 1..Len(Alphabet) : Alphabet[k] = t[1]

\* sorted(): the positions of a list in ascending order of the ranks, equal
\* ranks in the order of the list
Order(ranks) ==
    LET place(i) ==
            Cardinality({j \in 1..Len(ranks) :
                            \/ ranks[j] < ranks[i]
                            \/ (ranks[j] = ranks[i] /\ j < i)}) + 1
    IN  [q \in 1..Len(ranks) |-> CHOOSE i \in 1..Len(ranks) : place(i) = q]

\* sorted(objectives) of a list of names
sorted_names(names) ==
    LET order == Order([j \in 1..Len(names) |-> NameRank(names[j])])
    IN  [q \in 1..Len(names) |-> names[order[q]]]

\* sorted(d.items()) of a dict, its items <<name, value>> in any order
unsorted_items(items) == items

sorted_items(items) ==
    LET order == Order([j \in 1..Len(items) |-> NameRank(items[j][1])])
    IN  [q \in 1..Len(items) |-> items[order[q]]]

\* _parse_objectives(objectives) of a list or a dict
parse_objectives_verbatim(objs) ==
    IF objs.type = "dict"
    THEN IF objs.items = <<>>
         THEN [raised |-> TRUE, o |-> <<>>, i |-> <<>>]
         ELSE [raised |-> FALSE,
               o |-> [k \in 1..Len(objs.items) |-> sorted_items(objs.items)[k][1]],
               i |-> [k \in 1..Len(objs.items) |-> sorted_items(objs.items)[k][2]]]
    ELSE [raised |-> FALSE, o |-> objs.items, i |-> objs.items]

parse_objectives(objs) ==
    IF objs.type = "dict"
    THEN IF objs.items = <<>>
         THEN [raised |-> TRUE, o |-> <<>>, i |-> <<>>]
         ELSE [raised |-> FALSE,
               o |-> [k \in 1..Len(objs.items) |-> sorted_items(objs.items)[k][1]],
               i |-> [k \in 1..Len(objs.items) |-> sorted_items(objs.items)[k][2]]]
    ELSE [raised |-> FALSE,
          o |-> sorted_names(objs.items), i |-> sorted_names(objs.items)]

\* lo, up = zip(*self.parameters.values()): no parameter gives nothing to
\* unpack
unzip_bounds_of_none(pars) ==
    [raised |-> FALSE,
     lo |-> [k \in 1..Len(pars) |-> pars[k][2][1]],
     up |-> [k \in 1..Len(pars) |-> pars[k][2][2]]]

unzip_bounds(pars) ==
    [raised |-> pars = <<>>,
     lo |-> [k \in 1..Len(pars) |-> pars[k][2][1]],
     up |-> [k \in 1..Len(pars) |-> pars[k][2][2]]]

\* the populations create_start_population can return for the parameters
\* pars: n genomes of one random.uniform(l, u) per parameter, on the grid of
\* the integers
start_populations(pars, n) ==
    LET b == unzip_bounds(pars)
        drawn == UNION {b.lo[k]..b.up[k] : k \in 1..Len(pars)}
        genomes == {g \in [1..Len(pars) -> drawn] :
                       \A k \in 1..Len(pars) : g[k] \in b.lo[k]..b.up[k]}
    IN  [1..n -> genomes]

\* most items of the parameters and of the objectives argument
MaxArgs == 2

ParameterNames == { <<"a">>, <<"b">> }

ObjectiveNames == { <<"a">>, <<"b">>, <<"c">> }

ArgIndicators == { <<"i">>, <<"j">> }

ArgRanges == { <<0, 1>>, <<2, 3>> }

\* the items of a dict with keys of K and values of V, in any order
DictItems(K, V) ==
    {items \in UNION {[1..n -> K \X V] : n \in 0..MaxArgs} :
        \A j, k \in 1..Len(items) : items[j][1] = items[k][1] => j = k}

\* the parameters argument: not a dict (the default None), or a dict
ParameterArgs ==
    {[type |-> "NoneType", items |-> <<>>]}
    \cup {[type |-> "dict", items |-> items] :
            items \in DictItems(ParameterNames, ArgRanges)}

\* the objectives argument: a list of names or a dict of name: indicator
ObjectiveArgs ==
    {[type |-> "list", items |-> names] :
        names \in UNION {[1..n -> ObjectiveNames] : n \in 0..MaxArgs}}
    \cup {[type |-> "dict", items |-> items] :
            items \in DictItems(ObjectiveNames, ArgIndicators)}

InitArgs ==
    /\ test = "None"
    /\ keep_clones = FALSE
    /\ population_size \in 1..MaxPop
    /\ max_generations = MaxGenerations
    /\ pc = "call"
    /\ bpc = 0
    /\ ret = "none"
    /\ target = "population"
    /\ generation = 0
    /\ population = <<>>
    /\ offspring = <<>>
    /\ next_id = 1
    /\ clones = <<>>
    /\ clone_calls = <<>>
    /\ clone_params = <<>>
    /\ evaltimes = <<>>
    /\ timeouts = <<>>
    /\ runs = {}
    /\ obvals = <<>>
    /\ store = {}
    /\ budget = [faults |-> 0, slow |-> 0]
    /\ saved = <<>>
    /\ test_counts = <<>>
    /\ observerfile \in {[buf |-> <<>>, disk |-> <<>>], [buf |-> <<>>, disk |-> StaleFile]}
    /\ log = <<>>
    /\ given \in [parameters : ParameterArgs, objectives : ObjectiveArgs]
    /\ csv = <<>>
    /\ frame = <<>>
    /\ frame0 = <<>>
    /\ fpc = "off"
    /\ result = <<>>

\* what __call__ has set when it leaves lines 112-137
CallResult(where, pars, po, pop) ==
    [raised |-> where # "", at |-> where, parameters |-> pars,
     objectives |-> po.o, indicators |-> po.i, start_population |-> pop]

\* __call__(parameters, objectives, ...) up to the tests: lines 112-137
CallWithArgs ==
    /\ pc = "call"
    /\ LET pars == sorted_items(given.parameters.items)
           po == parse_objectives(given.objectives)
           none == [raised |-> FALSE, o |-> <<>>, i |-> <<>>]
       IN  IF given.parameters.type # "dict"
           THEN /\ result' = CallResult("assert parameters", <<>>, none, <<>>)
                /\ pc' = "aborted"
                /\ UNCHANGED <<observerfile, population, next_id>>
           ELSE IF po.raised
           THEN /\ result' = CallResult("_parse_objectives", pars, none, <<>>)
                /\ pc' = "aborted"
                /\ UNCHANGED <<observerfile, population, next_id>>
           ELSE IF unzip_bounds(pars).raised
           THEN /\ result' = CallResult("create_start_population", pars, po, <<>>)
                /\ pc' = "aborted"
                /\ observerfile' = OpenWrite(observerfile)
                /\ UNCHANGED <<population, next_id>>
           ELSE \E pop \in start_populations(pars, population_size) :
                   /\ result' = CallResult("", pars, po, pop)
                   /\ pc' = IF test # "False" THEN "tests" ELSE "algo"
                   /\ observerfile' = OpenWrite(observerfile)
                   /\ population' = [k \in 1..population_size |->
                                        [id_number |-> k, genome |-> pop[k],
                                         clonename |-> NoName, date_of_birth |-> -1,
                                         objective_values |-> <<>>]]
                   /\ next_id' = population_size + 1
    /\ UNCHANGED <<given, csv, frame, frame0, fpc>>
    /\ UNCHANGED <<test, keep_clones, population_size, max_generations, bpc, ret,
                   target, generation, offspring, clones, clone_calls,
                   clone_params, evaltimes, timeouts, runs, obvals, store, budget,
                   saved, test_counts, log>>

NextArgs == CallWithArgs

SpecArgs == InitArgs /\ [][NextArgs]_vars

(* ------------------ claims about __call__'s arguments ----------------- *)

\* the call has gone through lines 112-137, to a return or to an error
Called == pc # "call"

\* the call has parsed its objectives
Parsed == Called /\ result.at \in {"", "create_start_population"}

\* how often x stands in the list s
Count(s, x) == Cardinality({k \in 1..Len(s) : s[k] = x})

\* the list t holds the elements of the list s in ascending order
SortedFrom(s, t) ==
    /\ Len(t) = Len(s)
    /\ \A x \in ObjectiveNames : Count(t, x) = Count(s, x)
    /\ \A j, k \in 1..Len(t) : j < k => NameRank(t[j]) <= NameRank(t[k])

\* the names and indicators parsed from a dict: its keys ascending, each with
\* the indicator the dict gives it
DictParsed ==
    given.objectives.type = "dict" =>
        /\ Len(result.objectives) = Len(given.objectives.items)
        /\ Len(result.indicators) = Len(given.objectives.items)
        /\ \A j, k \in 1..Len(result.objectives) :
              j < k => NameRank(result.objectives[j]) < NameRank(result.objectives[k])
        /\ \A k \in 1..Len(result.objectives) :
              \E j \in 1..Len(given.objectives.items) :
                 given.objectives.items[j] = <<result.objectives[k], result.indicators[k]>>

\* C16 as stated: a list of objectives gives names and indicators equal to the
\* list in the given order; a dict gives its keys ascending, each with its
\* indicator
C16_Original ==
    Parsed =>
        /\ given.objectives.type = "list" =>
              /\ result.objectives = given.objectives.items
              /\ result.indicators = given.objectives.items
        /\ DictParsed

\* C16: a list of objectives gives names and indicators both equal to the list
\* sorted ascending, equal names kept; a dict gives its keys ascending, each
\* with the indicator the dict assigns to it
C16_ParseObjectives ==
    Parsed =>
        /\ given.objectives.type = "list" =>
              /\ SortedFrom(given.objectives.items, result.objectives)
              /\ result.indicators = result.objectives
        /\ DictParsed

\* a list given in descending order has been parsed
C16_Witness ==
    /\ Parsed
    /\ given.objectives = [type |-> "list", items |-> << <<"b">>, <<"a">> >>]
    /\ result.objectives = << <<"a">>, <<"b">> >>

\* C17: a call whose parameters are not a dict, or an empty dict, ends in an
\* error, with no self-test run, no individual evaluated and no clone made
C17_ParametersRejected ==
    (Called /\ (given.parameters.type # "dict" \/ given.parameters.items = <<>>)) =>
        /\ pc = "aborted"
        /\ result.raised
        /\ result.start_population = <<>>
        /\ population = <<>>
        /\ test_counts = <<>>
        /\ clones = <<>>
        /\ clone_calls = <<>>
        /\ runs = {}

\* an empty dict of parameters, with objectives that parse, has been rejected
C17_Witness ==
    /\ pc = "aborted"
    /\ given.parameters = [type |-> "dict", items |-> <<>>]
    /\ given.objectives.type = "list"
    /\ result.raised

\* the bounds the dict of parameters gives the name t
BoundsOf(t) ==
    LET j == CHOOSE j \in 1..Len(given.parameters.items) :
                given.parameters.items[j][1] = t
    IN  given.parameters.items[j][2]

\* the names of the parameters given, ascending
NamesAscending ==
    LET names == {given.parameters.items[j][1] : j \in 1..Len(given.parameters.items)}
    IN  CHOOSE s \in [1..Cardinality(names) -> names] :
           \A j, k \in 1..Len(s) : j < k => NameRank(s[j]) < NameRank(s[k])

\* C18: the start population has population_size individuals, each genome has
\* one value per parameter in the ascending order of the names, the k-th value
\* within the bounds of the k-th parameter
C18_StartPopulation ==
    (Called /\ ~result.raised) =>
        /\ Len(result.start_population) = population_size
        /\ \A n \in 1..population_size :
              /\ Len(result.start_population[n]) = Len(given.parameters.items)
              /\ \A k \in 1..Len(NamesAscending) :
                    /\ BoundsOf(NamesAscending[k])[1] <= result.start_population[n][k]
                    /\ result.start_population[n][k] <= BoundsOf(NamesAscending[k])[2]

\* a start population for two parameters given in descending order of their
\* names and with different bounds
C18_Witness ==
    /\ Called
    /\ ~result.raised
    /\ population_size = MaxPop
    /\ given.parameters.items = << <<<<"b">>, <<0, 1>>>>, <<<<"a">>, <<2, 3>>>> >>
    /\ result.start_population[1] = <<3, 0>>

(* ------------------- claims about batch_evaluate ---------------------- *)

\* a batch evaluation of this run has raised
BatchRaised == Positions("executor_raises") \cup Positions("KeyError") # {}

\* C21: when a batch evaluation raises while generation n is evaluated, the
\* run is aborted, the population file holds the population_size rows of every
\* generation below n, no clone of the clone mapping has been removed, no run
\* has been saved and the identifiers have not been reset
C21_AbortKeepsProgress ==
    BatchRaised =>
        /\ pc = "aborted"
        /\ \A g \in 0..(generation - 1) :
              Cardinality(RowsOnDisk(g)) = population_size
        /\ \A p \in Positions("remove") : log[p].a = 0
        /\ Cardinality(DOMAIN clones) = Cardinality({c \in Range(clone_calls) : c # TestCloneName})
        /\ saved = <<>>
        /\ Positions("reset_ids") = {}

\* the batch of generation 1 raised, after generation 0 was logged with
\* clones made
C21_Witness ==
    /\ BatchRaised
    /\ generation = 1
    /\ target = "offspring"
    /\ population_size = MaxPop
    /\ Cardinality(RowsOnDisk(0)) = MaxPop
    /\ Cardinality(DOMAIN clones) = MaxPop

\* the batch evaluation called last has returned and nothing was logged since
BatchReturned == log # <<>> /\ log[Len(log)].e = "returned"

\* one value per declared objective, the k-th the value of the k-th indicator
\* or the sentinel
FullyValued(i) ==
    /\ Len(i.objective_values) = Len(objectives)
    /\ \A k \in 1..Len(objectives) :
          i.objective_values[k] \in {Sim(i.genome, k), Float(2, 31)}

\* C22: when batch_evaluate has returned, every individual of the batch has
\* one objective value per declared objective, in the order of the declared
\* objectives, also when an indicator was missing; an individual that has not
\* been through a batch evaluation has no objective values
C22_ObjectiveValueCount ==
    /\ BatchReturned => \A k \in 1..Len(individuals) : FullyValued(individuals[k])
    /\ \A i \in Range(population) \cup Range(offspring) :
          /\ i.clonename = NoName => i.objective_values = <<>>
          /\ i.objective_values = <<>> \/ FullyValued(i)

\* a batch of two offspring has returned, one of them with a missing
\* indicator
C22_Witness ==
    /\ BatchReturned
    /\ target = "offspring"
    /\ Len(offspring) = MaxPop
    /\ offspring[1].objective_values = <<Sim(offspring[1].genome, 1), Float(2, 31)>>
    /\ offspring[2].objective_values =
          <<Sim(offspring[2].genome, 1), Sim(offspring[2].genome, 2)>>

\* C23: the first batch evaluation passes no timeout; the k-th passes 3 times
\* the mean of the k-1 elapsed times recorded before it (timeout * (k-1) =
\* 3 * their sum); every batch evaluation that returned added one elapsed time
C23_TimeoutIsThreeMeans ==
    /\ \A k \in 1..Len(timeouts) :
          IF k = 1 THEN timeouts[k] = <<>>
          ELSE /\ timeouts[k] # <<>>
               /\ timeouts[k][1] * (k - 1) = 3 * SumSeq(SubSeq(evaltimes, 1, k - 1))
    /\ Len(evaltimes) = Cardinality(Positions("returned"))

(* ------------------------ _get_clone on its own ----------------------- *)

\* largest population_size of the clone names
MaxNamedPop == 11

\* most _get_clone calls looked at
MaxCloneCalls == 2

InitClones ==
    /\ test = "False"
    /\ keep_clones = FALSE
    /\ population_size \in 1..MaxNamedPop
    /\ max_generations = MaxGenerations
    /\ pc = "get_clone"
    /\ bpc = 0
    /\ ret = "none"
    /\ target = "population"
    /\ generation = 0
    /\ population = <<>>
    /\ offspring = <<>>
    /\ next_id = 1
    /\ clones = <<>>
    /\ clone_calls = <<>>
    /\ clone_params = <<>>
    /\ evaltimes = <<>>
    /\ timeouts = <<>>
    /\ runs = {}
    /\ obvals = <<>>
    /\ store = {}
    /\ budget = [faults |-> 0, slow |-> 0]
    /\ saved = <<>>
    /\ test_counts = <<>>
    /\ observerfile = [buf |-> <<>>, disk |-> <<>>]
    /\ log = <<>>
    /\ given = <<>>
    /\ csv = <<>>
    /\ frame = <<>>
    /\ frame0 = <<>>
    /\ fpc = "off"
    /\ result = <<>>

\* self._get_clone(i) for a batch index i: lines 220-227
GetClone ==
    /\ pc = "get_clone"
    /\ Len(log) < MaxCloneCalls
    /\ \E i \in 0..(population_size - 1) :
        LET c == get_clone([clones |-> clones, calls |-> clone_calls], i)
        IN  /\ clones' = c.clones
            /\ clone_calls' = c.calls
            /\ result' = [i |-> i, clonename |-> c.clonename, clone |-> c.clone]
            /\ log' = Append(log, Event("get_clone", i))
    /\ UNCHANGED <<given, csv, frame, frame0, fpc>>
    /\ UNCHANGED <<test, keep_clones, population_size, max_generations, pc, bpc,
                   ret, target, generation, population, offspring, next_id,
                   clone_params, evaltimes, timeouts, runs, obvals, store, budget,
                   saved, test_counts, observerfile>>

NextClones == GetClone

SpecClones == InitClones /\ [][NextClones]_vars

\* the number of decimal digits of n >= 0
Digits(n) == IF n < 10 THEN 1 ELSE IF n < 100 THEN 2 ELSE 3

\* the name t is prefix, an underscore and the index i written in exactly w
\* decimal digits
NamedWithWidth(t, i, w) ==
    /\ Len(t) = 2 + w
    /\ t[1] = prefix
    /\ t[2] = "_"
    /\ IsNumber(SubSeq(t, 3, Len(t)))
    /\ Number(SubSeq(t, 3, Len(t))) = i

\* the names given so far have one length
EqualLengths == \A a, b \in Range(clone_calls) : Len(a) = Len(b)

\* C24 as stated: the clone of batch index i is named prefix, underscore and
\* i padded with zeros to the number of digits of population_size, and the
\* names of all indices below population_size have one length
C24_Original ==
    result # <<>> =>
        /\ NamedWithWidth(result.clonename, result.i, Digits(population_size))
        /\ EqualLengths

\* C24: the clone of batch index i is named prefix, underscore and i padded
\* with zeros to the number of digits of population_size - 1, the largest
\* index, and the names of all indices below population_size have one length
C24_CloneName ==
    result # <<>> =>
        /\ NamedWithWidth(result.clonename, result.i, Digits(population_size - 1))
        /\ EqualLengths

\* index 3 of a population of 11 is padded to two digits, after the clone of
\* index 10 was made
C24_Witness ==
    /\ result # <<>>
    /\ population_size = 11
    /\ result.i = 3
    /\ result.clonename = <<prefix, "_", "0", "3">>
    /\ clone_calls = << <<prefix, "_", "1", "0">>, <<prefix, "_", "0", "3">> >>

(* --------------- further claims about batch_evaluate ------------------ *)

\* what is harvested from the run r: the value of each indicator's single
\* record, the sentinel where there is not exactly one
Harvest(r) ==
    [k \in 1..Len(indicators) |->
        IF Len(r.ri[k]) = 1 THEN r.ri[k][1] ELSE Float(2, 31)]

\* C25: when batch_evaluate has returned, the objective values of each
\* individual are harvested from a run of this batch, made in the clone the
\* individual is named after, to which the individual's own parameter vector
\* was applied; the values come from the individual's own vector, and no two
\* individuals of the batch share a clone
C25_OwnRunOnly ==
    BatchReturned =>
        /\ \A j \in 1..Len(individuals) :
              \E r \in runs :
                 /\ r.id = [batch |-> Len(timeouts), k |-> j]
                 /\ r.tags = individuals[j].clonename
                 /\ clone_params[clones[r.tags]] = individuals[j].genome
                 /\ individuals[j].objective_values = Harvest(r)
                 /\ \A k \in 1..Len(indicators) :
                       Len(r.ri[k]) = 1 =>
                          individuals[j].objective_values[k] = Sim(individuals[j].genome, k)
        /\ \A j, k \in 1..Len(individuals) :
              individuals[j].clonename = individuals[k].clonename => j = k

\* the offspring of generation 1 have been evaluated in the clones that ran
\* the start population
C25_Witness ==
    /\ BatchReturned
    /\ target = "offspring"
    /\ generation = 1
    /\ Len(offspring) = MaxPop
    /\ Len(clone_calls) = MaxPop
    /\ Cardinality(Positions("batch")) = 2
    /\ \A j \in 1..MaxPop : offspring[j].objective_values = Harvest(
          [ri |-> [k \in 1..Len(indicators) |-> <<Sim(offspring[j].genome, k)>>]])

\* the individuals of the batch for whose clone the executor returned no run
Unreturned == {j \in 1..Len(individuals) : RunOf(individuals[j]) = {}}

\* the records of the batch's runs have been deleted
BatchDeleted ==
    /\ store \cap runs = {}
    /\ \E d \in Positions("delete") : \A b \in Positions("batch") : b < d

\* C26: when the executor returned no run for a clone of the batch, the
\* assignment of batch_evaluate raises: the run aborts, the records of the
\* batch's runs are already deleted, no elapsed time is recorded, the
\* individual without a run and those after it are left as they were (no
\* sentinel is assigned), and the individuals before it have received the
\* values of their runs
C26_MissingRunRaises ==
    [][(AtStep("assign") /\ Unreturned # {}) =>
          /\ pc' = "aborted"
          /\ log'[Len(log')].e = "KeyError"
          /\ BatchDeleted
          /\ evaltimes' = evaltimes
          /\ \A j \in 1..Len(individuals) :
                IF \E u \in Unreturned : u <= j
                THEN individuals'[j] = individuals[j]
                ELSE \E r \in RunOf(individuals[j]) :
                        individuals'[j].objective_values = Harvest(r)]_vars

\* the batch of generation 1 raised for its second offspring after the first
\* one received its values
C26_Witness ==
    /\ pc = "aborted"
    /\ log[Len(log)].e = "KeyError"
    /\ target = "offspring"
    /\ Len(offspring) = MaxPop
    /\ offspring[1].objective_values =
          <<Sim(offspring[1].genome, 1), Sim(offspring[1].genome, 2)>>
    /\ offspring[2].objective_values = <<>>
    /\ RunOf(offspring[2]) = {}
    /\ store = {}
    /\ Len(evaltimes) = 1
    /\ Len(timeouts) = 2

====
